---------------------------- MODULE Spec2Model ----------------------------
(***************************************************************************)
(* cas-lock: spinlocks, queue locks and reader-writer locks built on a     *)
(* 32-bit atomic cell (include/atomic.h).                                  *)
(*                                                                         *)
(* Threads interleave at the granularity of one atomic operation (one load,*)
(* store, exchange, compare-and-swap or fetch-add of a lock word).  A spin *)
(* loop is one action per loop iteration: an iteration that fails leaves   *)
(* the thread at the same place.  The uint32_t cells are WordBits wide and *)
(* wrap modulo Word.  Queue nodes are named by their addresses, which are  *)
(* stored in atomic words as in the source; the nodes live below Word, as  *)
(* on a build whose pointers are as wide as the atomic cell.               *)
(*                                                                         *)
(* Every lock has its own specification (SpecTAS, SpecTicket, ...), all    *)
(* over the same variables; a specification leaves the other locks alone.  *)
(***************************************************************************)
EXTENDS Naturals, Integers, Sequences, FiniteSets, TLC

\* ------------------------------------------------------------- bounds
NumThreads == 3
Iterations == 2
WordBits == 2

Word == 2 ^ WordBits
Threads == 1 .. NumThreads
NULL == 0

VARIABLES
    pc,               \* each thread's place in the operation it is executing
    reg,              \* each thread's local (my_ticket, my_slot, old_readers, prev, next),
                      \* 0 once the function that declares it has no more use for it
    iter,             \* the test threads' loop counter i
    counter,          \* test_data_t.counter, incremented inside the critical section
    arrivals,         \* history: the threads queued on the lock, in the order their
                      \* fetch_add or exchange on the lock completed
    g_spin_lock,      \* spinlock_t
    g_tatas_lock,     \* tatas_lock_t
    g_ticket_lock,    \* ticketlock_t
    my_ticket,        \* history: the ticket each thread's pending ticket_lock drew
    g_anderson_lock,  \* anderson_lock_t
    g_mcs_lock,       \* mcs_lock_t
    mcs_node,         \* the threads' mcs_node_t, by address
    g_clh_lock,       \* clh_lock_t
    clh_node,         \* every clh_node_t, by address
    node,             \* the clh_node_t each thread passes to clh_lock / clh_unlock
    rw_lock,          \* rwlock_t
    readers_active,   \* rw_data.readers_active of the reader test
    g_rw_phase_lock,  \* rwlock_phase_t
    val,              \* tests/test_locks.c test_atomic_operations: the cell val
    old,              \* what the last call on val returned
    call              \* history: the last call on val, with val before it (v)

spinVars == <<g_spin_lock>>
tatasVars == <<g_tatas_lock>>
ticketVars == <<g_ticket_lock, my_ticket>>
andersonVars == <<g_anderson_lock>>
mcsVars == <<g_mcs_lock, mcs_node>>
clhVars == <<g_clh_lock, clh_node, node>>
rwVars == <<rw_lock, readers_active>>
phaseVars == <<g_rw_phase_lock>>
atomicVars == <<val, old, call>>

lockVars == <<spinVars, ticketVars, andersonVars, mcsVars, clhVars, rwVars, phaseVars, atomicVars, tatasVars>>
exceptSpin == <<ticketVars, andersonVars, mcsVars, clhVars, rwVars, phaseVars, atomicVars, tatasVars>>
exceptTicket == <<spinVars, andersonVars, mcsVars, clhVars, rwVars, phaseVars, atomicVars, tatasVars>>
exceptAnderson == <<spinVars, ticketVars, mcsVars, clhVars, rwVars, phaseVars, atomicVars, tatasVars>>
exceptMcs == <<spinVars, ticketVars, andersonVars, clhVars, rwVars, phaseVars, atomicVars, tatasVars>>
exceptClh == <<spinVars, ticketVars, andersonVars, mcsVars, rwVars, phaseVars, atomicVars, tatasVars>>
exceptRw == <<spinVars, ticketVars, andersonVars, mcsVars, clhVars, phaseVars, atomicVars, tatasVars>>
exceptPhase == <<spinVars, ticketVars, andersonVars, mcsVars, clhVars, rwVars, atomicVars, tatasVars>>

exceptTatas == <<spinVars, ticketVars, andersonVars, mcsVars, clhVars, rwVars, phaseVars, atomicVars>>

exceptAtomic == <<spinVars, ticketVars, andersonVars, mcsVars, clhVars, rwVars, phaseVars, tatasVars>>

vars == <<pc, reg, iter, counter, arrivals, lockVars>>

\* ------------------------------------------------- include/atomic.h
\* An operation on a cell holding v: ret is what it returns, mem what it leaves.
atomic_load(v) == v

atomic_load_acquire(v) == v

atomic_xchg(v, value) == [ret |-> v, mem |-> value]

atomic_cmpxchg(v, expected, desired) ==
    [ret |-> v, mem |-> IF v = expected THEN desired ELSE v]

atomic_fetch_add(v, value) == [ret |-> v, mem |-> (v + value) % Word]

\* (uint32_t)(-(int32_t)value), where the negation is defined
Negate(value) == (Word - (value % Word)) % Word

\* (int32_t)value is INT32_MIN: the negation overflows the signed type, and
\* the behaviour is undefined.
NegateOverflows(value) == value % Word = Word \div 2

\* What the negation may yield.
NegateOutcomes(value) ==
    IF NegateOverflows(value) THEN 0 .. Word - 1 ELSE {Negate(value)}

atomic_fetch_sub(v, value) == atomic_fetch_add(v, Negate(value))

atomic_add(v, value) ==
    LET r == atomic_fetch_add(v, value)
    IN  [ret |-> (r.ret + value) % Word, mem |-> r.mem]

atomic_sub(v, value) ==
    LET r == atomic_fetch_add(v, Negate(value))
    IN  [ret |-> (r.ret + Word - (value % Word)) % Word, mem |-> r.mem]

atomic_inc(v) == atomic_add(v, 1)

atomic_dec(v) == atomic_sub(v, 1)

atomic_cmpxchg_bool(v, expected, desired) ==
    LET r == atomic_cmpxchg(v, expected, desired)
    IN  [ret |-> IF r.ret = expected THEN 1 ELSE 0, mem |-> r.mem]

\* __atomic_fetch_and, __atomic_fetch_or: bit by bit, the lowest bit first
RECURSIVE BitAnd(_, _)
BitAnd(a, b) ==
    IF a = 0 \/ b = 0 THEN 0
    ELSE (IF a % 2 = 1 /\ b % 2 = 1 THEN 1 ELSE 0) + 2 * BitAnd(a \div 2, b \div 2)

RECURSIVE BitOr(_, _)
BitOr(a, b) ==
    IF a = 0 THEN b
    ELSE IF b = 0 THEN a
    ELSE (IF a % 2 = 1 \/ b % 2 = 1 THEN 1 ELSE 0) + 2 * BitOr(a \div 2, b \div 2)

atomic_and(v, value) == [ret |-> v, mem |-> BitAnd(v, value)]

atomic_or(v, value) == [ret |-> v, mem |-> BitOr(v, value)]

\* tests/test_locks.c test_atomic_operations: volatile uint32_t val = 0;
atomic_test_init ==
    /\ val = 0
    /\ old = 0
    /\ call = [op |-> "none", v |-> 0, x |-> 0, y |-> 0]

\* A call op(&val, x, y) that returns r.ret and leaves r.mem.
AtomicCall(op, x, y, r) ==
    /\ val' = r.mem
    /\ old' = r.ret
    /\ call' = [op |-> op, v |-> val, x |-> x, y |-> y]
    /\ UNCHANGED <<pc, reg, iter, counter, arrivals, exceptAtomic>>

call_atomic_xchg == \E x \in 0 .. Word - 1 : AtomicCall("xchg", x, 0, atomic_xchg(val, x))

call_atomic_cmpxchg ==
    \E e, d \in 0 .. Word - 1 : AtomicCall("cmpxchg", e, d, atomic_cmpxchg(val, e, d))

call_atomic_cmpxchg_bool ==
    \E e, d \in 0 .. Word - 1 :
        AtomicCall("cmpxchg_bool", e, d, atomic_cmpxchg_bool(val, e, d))

call_atomic_fetch_add ==
    \E x \in 0 .. Word - 1 : AtomicCall("fetch_add", x, 0, atomic_fetch_add(val, x))

\* atomic_fetch_add(ptr, (uint32_t)(-(int32_t)value)), whatever the negation yields
call_atomic_fetch_sub ==
    \E x \in 0 .. Word - 1 :
        IF NegateOverflows(x)
        THEN \E n \in NegateOutcomes(x) :
                 AtomicCall("fetch_sub", x, 0, atomic_fetch_add(val, n))
        ELSE AtomicCall("fetch_sub", x, 0, atomic_fetch_sub(val, x))

call_atomic_and == \E x \in 0 .. Word - 1 : AtomicCall("and", x, 0, atomic_and(val, x))

call_atomic_or == \E x \in 0 .. Word - 1 : AtomicCall("or", x, 0, atomic_or(val, x))

call_atomic_inc == AtomicCall("inc", 0, 0, atomic_inc(val))

call_atomic_dec == AtomicCall("dec", 0, 0, atomic_dec(val))

\* ------------------------------------------------- the test threads
\* A thread is inside the critical section from the return of the acquire to
\* the start of the release.
InCS(t) == pc[t] \in {"cs", "cs_inc", "cs_end"}

Holders == {t \in Threads : InCS(t)}

\* tests/test_locks.c: the loop  for (i = 0; i < ITERATIONS; i++)
MayIterate(t) == iter[t] < Iterations

\* counter++ of a volatile uint32_t: the load ...
counter_load(t) ==
    /\ pc[t] = "cs"
    /\ reg' = [reg EXCEPT ![t] = counter]
    /\ pc' = [pc EXCEPT ![t] = "cs_inc"]
    /\ UNCHANGED <<iter, counter, arrivals, lockVars>>

\* ... and the store
counter_store(t) ==
    /\ pc[t] = "cs_inc"
    /\ counter' = (reg[t] + 1) % Word
    /\ pc' = [pc EXCEPT ![t] = "cs_end"]
    /\ reg' = [reg EXCEPT ![t] = 0]
    /\ UNCHANGED <<iter, arrivals, lockVars>>

InitThreads ==
    /\ pc = [t \in Threads |-> "idle"]
    /\ reg = [t \in Threads |-> 0]
    /\ iter = [t \in Threads |-> 0]
    /\ counter = 0
    /\ arrivals = <<>>
    /\ my_ticket = [t \in Threads |-> 0]

\* ----------------------------------------- include/spinlock.h: TAS
spin_init == g_spin_lock = [locked |-> 0]

\* the sense of the result inverted
spin_trylock_inverted(t) ==
    /\ pc[t] = "idle"
    /\ MayIterate(t)
    /\ LET x == atomic_xchg(g_spin_lock.locked, 1)
       IN  /\ g_spin_lock' = [g_spin_lock EXCEPT !.locked = x.mem]
           /\ pc' = [pc EXCEPT ![t] = IF x.ret # 0 THEN "cs" ELSE "trylock_failed"]
    /\ UNCHANGED <<reg, iter, counter, arrivals, exceptSpin>>

\* return (atomic_xchg(&lock->locked, 1) == 0);
\* A caller that is returned 1 goes on into the critical section, a caller
\* that is returned 0 is at "trylock_failed".
spin_trylock(t) ==
    /\ pc[t] = "idle"
    /\ MayIterate(t)
    /\ LET x == atomic_xchg(g_spin_lock.locked, 1)
       IN  /\ g_spin_lock' = [g_spin_lock EXCEPT !.locked = x.mem]
           /\ pc' = [pc EXCEPT ![t] = IF x.ret = 0 THEN "cs" ELSE "trylock_failed"]
    /\ UNCHANGED <<reg, iter, counter, arrivals, exceptSpin>>

\* The caller that was returned 0 goes on to its next call.
spin_trylock_failed(t) ==
    /\ pc[t] = "trylock_failed"
    /\ pc' = [pc EXCEPT ![t] = "idle"]
    /\ UNCHANGED <<reg, iter, counter, arrivals, lockVars>>

\* the loop condition inverted
spin_lock_inverted(t) ==
    /\ pc[t] \in {"idle", "spin_lock"}
    /\ MayIterate(t)
    /\ LET x == atomic_xchg(g_spin_lock.locked, 1)
       IN  /\ g_spin_lock' = [g_spin_lock EXCEPT !.locked = x.mem]
           /\ pc' = [pc EXCEPT ![t] = IF x.ret # 0 THEN "cs" ELSE "spin_lock"]
    /\ UNCHANGED <<reg, iter, counter, arrivals, exceptSpin>>

\* one iteration of  while (atomic_xchg(&lock->locked, 1) != 0) cpu_pause();
spin_lock(t) ==
    /\ pc[t] \in {"idle", "spin_lock"}
    /\ MayIterate(t)
    /\ LET x == atomic_xchg(g_spin_lock.locked, 1)
       IN  /\ g_spin_lock' = [g_spin_lock EXCEPT !.locked = x.mem]
           /\ pc' = [pc EXCEPT ![t] = IF x.ret = 0 THEN "cs" ELSE "spin_lock"]
    /\ UNCHANGED <<reg, iter, counter, arrivals, exceptSpin>>

spin_unlock(t) ==
    /\ pc[t] = "cs_end"
    /\ g_spin_lock' = [g_spin_lock EXCEPT !.locked = 0]
    /\ pc' = [pc EXCEPT ![t] = "idle"]
    /\ iter' = [iter EXCEPT ![t] = iter[t] + 1]
    /\ UNCHANGED <<reg, counter, arrivals, exceptSpin>>

\* ------------------------------------- include/spinlock.h: test-and-test-and-set

\* atomic_store(&lock->locked, 0);
tatas_init == g_tatas_lock = [locked |-> 0]

\* return atomic_xchg(&lock->locked, 1) == 0;
\* A caller that is returned 0 is at "trylock_failed".
tatas_trylock(t) ==
    /\ pc[t] = "idle"
    /\ MayIterate(t)
    /\ LET x == atomic_xchg(g_tatas_lock.locked, 1)
       IN  /\ g_tatas_lock' = [g_tatas_lock EXCEPT !.locked = x.mem]
           /\ pc' = [pc EXCEPT ![t] = IF x.ret = 0 THEN "cs" ELSE "trylock_failed"]
    /\ UNCHANGED <<reg, iter, counter, arrivals, exceptTatas>>

\* if (atomic_load(&lock->locked) == 0): the check without an atomic
\* read-modify-write; a caller that reads 1 pauses and reads again
tatas_lock_load(t) ==
    /\ pc[t] \in {"idle", "tatas_load"}
    /\ MayIterate(t)
    /\ pc' = [pc EXCEPT ![t] = IF atomic_load(g_tatas_lock.locked) = 0
                                 THEN "tatas_xchg" ELSE "tatas_load"]
    /\ UNCHANGED <<reg, iter, counter, arrivals, lockVars>>

\* the exchange replaced by a plain store of 1 once the load has read 0
tatas_lock_xchg_store(t) ==
    /\ pc[t] = "tatas_xchg"
    /\ g_tatas_lock' = [g_tatas_lock EXCEPT !.locked = 1]
    /\ pc' = [pc EXCEPT ![t] = "cs"]
    /\ UNCHANGED <<reg, iter, counter, arrivals, exceptTatas>>

\* if (atomic_xchg(&lock->locked, 1) == 0) return;  otherwise pause and retry
tatas_lock_xchg(t) ==
    /\ pc[t] = "tatas_xchg"
    /\ LET x == atomic_xchg(g_tatas_lock.locked, 1)
       IN  /\ g_tatas_lock' = [g_tatas_lock EXCEPT !.locked = x.mem]
           /\ pc' = [pc EXCEPT ![t] = IF x.ret = 0 THEN "cs" ELSE "tatas_load"]
    /\ UNCHANGED <<reg, iter, counter, arrivals, exceptTatas>>

\* atomic_store_release(&lock->locked, 0);
tatas_unlock(t) ==
    /\ pc[t] = "cs_end"
    /\ g_tatas_lock' = [g_tatas_lock EXCEPT !.locked = 0]
    /\ pc' = [pc EXCEPT ![t] = "idle"]
    /\ iter' = [iter EXCEPT ![t] = iter[t] + 1]
    /\ UNCHANGED <<reg, counter, arrivals, exceptTatas>>


\* ------------------------------------- include/ticketlock.h: ticket lock
ticket_init == g_ticket_lock = [next_ticket |-> 0, serving |-> 0]

\* The waiting threads without t, in their order.
Without(q, t) == SelectSeq(q, LAMBDA x : x # t)

\* the ticket read without the increment
ticket_lock_take_load(t) ==
    /\ pc[t] = "idle"
    /\ MayIterate(t)
    /\ reg' = [reg EXCEPT ![t] = atomic_load(g_ticket_lock.next_ticket)]
    /\ my_ticket' = [my_ticket EXCEPT ![t] = atomic_load(g_ticket_lock.next_ticket)]
    /\ pc' = [pc EXCEPT ![t] = "ticket_spin"]
    /\ arrivals' = Append(arrivals, t)
    /\ UNCHANGED <<iter, counter, g_ticket_lock, exceptTicket>>

\* uint32_t my_ticket = atomic_fetch_add(&lock->next_ticket, 1);
ticket_lock_take(t) ==
    /\ pc[t] = "idle"
    /\ MayIterate(t)
    /\ LET x == atomic_fetch_add(g_ticket_lock.next_ticket, 1)
       IN  /\ g_ticket_lock' = [g_ticket_lock EXCEPT !.next_ticket = x.mem]
           /\ reg' = [reg EXCEPT ![t] = x.ret]
           /\ my_ticket' = [my_ticket EXCEPT ![t] = x.ret]
    /\ pc' = [pc EXCEPT ![t] = "ticket_spin"]
    /\ arrivals' = Append(arrivals, t)
    /\ UNCHANGED <<iter, counter, exceptTicket>>

\* the wait written with an ordering of the counters:  while (serving < my_ticket)
ticket_lock_spin_less(t) ==
    /\ pc[t] = "ticket_spin"
    /\ IF atomic_load_acquire(g_ticket_lock.serving) < reg[t]
       THEN UNCHANGED <<pc, arrivals>>
       ELSE /\ pc' = [pc EXCEPT ![t] = "cs"]
            /\ arrivals' = Without(arrivals, t)
    /\ reg' = [reg EXCEPT ![t] = IF pc'[t] = "cs" THEN 0 ELSE @]
    /\ UNCHANGED <<iter, counter, lockVars>>

\* one iteration of  while (atomic_load_acquire(&lock->serving) != my_ticket)
ticket_lock_spin(t) ==
    /\ pc[t] = "ticket_spin"
    /\ IF atomic_load_acquire(g_ticket_lock.serving) # reg[t]
       THEN UNCHANGED <<pc, arrivals>>
       ELSE /\ pc' = [pc EXCEPT ![t] = "cs"]
            /\ arrivals' = Without(arrivals, t)
    /\ reg' = [reg EXCEPT ![t] = IF pc'[t] = "cs" THEN 0 ELSE @]
    /\ UNCHANGED <<iter, counter, lockVars>>
\* uint32_t next_ticket = atomic_load(&lock->next_ticket);
ticket_trylock_next(t) ==
    /\ pc[t] = "idle"
    /\ MayIterate(t)
    /\ reg' = [reg EXCEPT ![t] = atomic_load(g_ticket_lock.next_ticket)]
    /\ pc' = [pc EXCEPT ![t] = "ticket_try_serving"]
    /\ UNCHANGED <<iter, counter, arrivals, lockVars>>

\* uint32_t serving = atomic_load(&lock->serving);
\* if (next_ticket != serving) return 0;
ticket_trylock_serving(t) ==
    /\ pc[t] = "ticket_try_serving"
    /\ IF reg[t] # atomic_load(g_ticket_lock.serving)
       THEN /\ pc' = [pc EXCEPT ![t] = "trylock_failed"]
            /\ reg' = [reg EXCEPT ![t] = 0]
       ELSE /\ pc' = [pc EXCEPT ![t] = "ticket_try_cas"]
            /\ UNCHANGED reg
    /\ UNCHANGED <<iter, counter, arrivals, lockVars>>

\* if (atomic_cmpxchg_bool(&lock->next_ticket, next_ticket, next_ticket + 1))
\* ... return 0;
ticket_trylock_cas(t) ==
    /\ pc[t] = "ticket_try_cas"
    /\ LET x == atomic_cmpxchg_bool(g_ticket_lock.next_ticket, reg[t], (reg[t] + 1) % Word)
       IN  /\ g_ticket_lock' = [g_ticket_lock EXCEPT !.next_ticket = x.mem]
           /\ IF x.ret = 1
              THEN /\ pc' = [pc EXCEPT ![t] = "ticket_try_verify"]
                   /\ my_ticket' = [my_ticket EXCEPT ![t] = reg[t]]
                   /\ arrivals' = Append(arrivals, t)
                   /\ UNCHANGED reg
              ELSE /\ pc' = [pc EXCEPT ![t] = "trylock_failed"]
                   /\ reg' = [reg EXCEPT ![t] = 0]
                   /\ UNCHANGED <<my_ticket, arrivals>>
    /\ UNCHANGED <<iter, counter, exceptTicket>>

\* return (atomic_load_acquire(&lock->serving) == next_ticket);
\* The caller that is returned 0 here keeps the ticket it drew (my_ticket,
\* arrivals) and, as every caller that is returned 0, never calls
\* ticket_unlock for it.
ticket_trylock_verify(t) ==
    /\ pc[t] = "ticket_try_verify"
    /\ IF atomic_load_acquire(g_ticket_lock.serving) = reg[t]
       THEN /\ pc' = [pc EXCEPT ![t] = "cs"]
            /\ arrivals' = Without(arrivals, t)
       ELSE /\ pc' = [pc EXCEPT ![t] = "trylock_failed"]
            /\ UNCHANGED arrivals
    /\ reg' = [reg EXCEPT ![t] = 0]
    /\ UNCHANGED <<iter, counter, lockVars>>


\* serving read without the + 1
ticket_unlock_load_same(t) ==
    /\ pc[t] = "cs_end"
    /\ reg' = [reg EXCEPT ![t] = atomic_load(g_ticket_lock.serving)]
    /\ pc' = [pc EXCEPT ![t] = "ticket_unlock"]
    /\ UNCHANGED <<iter, counter, arrivals, lockVars>>

\* uint32_t next = atomic_load(&lock->serving) + 1;
ticket_unlock_load(t) ==
    /\ pc[t] = "cs_end"
    /\ reg' = [reg EXCEPT ![t] = (atomic_load(g_ticket_lock.serving) + 1) % Word]
    /\ pc' = [pc EXCEPT ![t] = "ticket_unlock"]
    /\ UNCHANGED <<iter, counter, arrivals, lockVars>>

\* the successor skipped
ticket_unlock_store_skip(t) ==
    /\ pc[t] = "ticket_unlock"
    /\ g_ticket_lock' = [g_ticket_lock EXCEPT !.serving = (reg[t] + 1) % Word]
    /\ pc' = [pc EXCEPT ![t] = "idle"]
    /\ iter' = [iter EXCEPT ![t] = iter[t] + 1]
    /\ reg' = [reg EXCEPT ![t] = 0]
    /\ my_ticket' = [my_ticket EXCEPT ![t] = 0]
    /\ UNCHANGED <<counter, arrivals, exceptTicket>>

\* atomic_store_release(&lock->serving, next);
ticket_unlock_store(t) ==
    /\ pc[t] = "ticket_unlock"
    /\ g_ticket_lock' = [g_ticket_lock EXCEPT !.serving = reg[t]]
    /\ pc' = [pc EXCEPT ![t] = "idle"]
    /\ iter' = [iter EXCEPT ![t] = iter[t] + 1]
    /\ reg' = [reg EXCEPT ![t] = 0]
    /\ my_ticket' = [my_ticket EXCEPT ![t] = 0]
    /\ UNCHANGED <<counter, arrivals, exceptTicket>>

\* ----------------------------------- include/ticketlock.h: Anderson lock
ANDERSON_LOCK_MAX_THREADS == 64

\* The slot counts anderson_init is called with.
MaxSlots == 3

\* First slot is available, rest are not.
anderson_init(num_slots) ==
    LET n == IF num_slots > ANDERSON_LOCK_MAX_THREADS
             THEN ANDERSON_LOCK_MAX_THREADS ELSE num_slots
    IN  g_anderson_lock =
            [next_slot |-> 0, serving_slot |-> 0,
             flags |-> [i \in 0 .. n - 1 |-> IF i = 0 THEN 1 ELSE 0],
             num_slots |-> n]
\* #define ANDERSON_LOCK_INITIALIZER(slots) {0, 0, {[0 ... (slots)-1] = 1}, slots}
ANDERSON_LOCK_INITIALIZER(slots) ==
    g_anderson_lock =
        [next_slot |-> 0, serving_slot |-> 0,
         flags |-> [i \in 0 .. slots - 1 |-> 1],
         num_slots |-> slots]


\* The threads holding or waiting for the Anderson lock.
Participants == {t \in Threads : pc[t] # "idle"}

\* uint32_t my_slot = atomic_fetch_add(&lock->next_slot, 1) % lock->num_slots;
anderson_lock_take(t) ==
    /\ pc[t] = "idle"
    /\ Cardinality(Participants) < g_anderson_lock.num_slots
    /\ LET x == atomic_fetch_add(g_anderson_lock.next_slot, 1)
       IN  /\ g_anderson_lock' = [g_anderson_lock EXCEPT !.next_slot = x.mem]
           /\ reg' = [reg EXCEPT ![t] = x.ret % g_anderson_lock.num_slots]
    /\ pc' = [pc EXCEPT ![t] = "anderson_spin"]
    /\ UNCHANGED <<iter, counter, arrivals, exceptAnderson>>

\* one iteration of  while (atomic_load_acquire(&lock->flags[my_slot]) == 0)
anderson_lock_spin(t) ==
    /\ pc[t] = "anderson_spin"
    /\ pc' = [pc EXCEPT ![t] =
                 IF atomic_load_acquire(g_anderson_lock.flags[reg[t]]) = 0
                 THEN "anderson_spin" ELSE "anderson_clear"]
    /\ UNCHANGED <<reg, iter, counter, arrivals, lockVars>>

\* atomic_store_release(&lock->flags[my_slot], 0);
anderson_lock_clear(t) ==
    /\ pc[t] = "anderson_clear"
    /\ g_anderson_lock' = [g_anderson_lock EXCEPT !.flags[reg[t]] = 0]
    /\ pc' = [pc EXCEPT ![t] = "cs"]
    /\ reg' = [reg EXCEPT ![t] = 0]
    /\ UNCHANGED <<iter, counter, arrivals, exceptAnderson>>

\* uint32_t next_slot = atomic_load(&lock->serving_slot) + 1;
anderson_unlock_load(t) ==
    /\ pc[t] = "cs"
    /\ reg' = [reg EXCEPT ![t] = (atomic_load(g_anderson_lock.serving_slot) + 1) % Word]
    /\ pc' = [pc EXCEPT ![t] = "anderson_serving"]
    /\ UNCHANGED <<iter, counter, arrivals, lockVars>>

\* atomic_store(&lock->serving_slot, next_slot % lock->num_slots);
anderson_unlock_serving(t) ==
    /\ pc[t] = "anderson_serving"
    /\ g_anderson_lock' =
           [g_anderson_lock EXCEPT !.serving_slot = reg[t] % g_anderson_lock.num_slots]
    /\ pc' = [pc EXCEPT ![t] = "anderson_flag"]
    /\ UNCHANGED <<reg, iter, counter, arrivals, exceptAnderson>>

\* atomic_store_release(&lock->flags[next_slot % lock->num_slots], 1);
anderson_unlock_flag(t) ==
    /\ pc[t] = "anderson_flag"
    /\ g_anderson_lock' =
           [g_anderson_lock EXCEPT !.flags[reg[t] % g_anderson_lock.num_slots] = 1]
    /\ pc' = [pc EXCEPT ![t] = "idle"]
    /\ reg' = [reg EXCEPT ![t] = 0]
    /\ UNCHANGED <<iter, counter, arrivals, exceptAnderson>>

\* --------------------------------------- include/mcslock.h: MCS lock
\* (uint32_t)node: a node's address as the atomic word holds it.
PtrToWord(p) == p % Word

\* Thread t's mcs_local_node lives at address t.
McsNodes == Threads

mcs_init == g_mcs_lock = [tail |-> 0]

mcs_node_init == mcs_node = [n \in McsNodes |-> [next |-> NULL, locked |-> 0]]

\* node->next = NULL;
mcs_lock_next(t) ==
    /\ pc[t] = "idle"
    /\ MayIterate(t)
    /\ mcs_node' = [mcs_node EXCEPT ![t].next = NULL]
    /\ pc' = [pc EXCEPT ![t] = "mcs_locked0"]
    /\ UNCHANGED <<reg, iter, counter, arrivals, g_mcs_lock, exceptMcs>>

\* node->locked = 0;
mcs_lock_locked0(t) ==
    /\ pc[t] = "mcs_locked0"
    /\ mcs_node' = [mcs_node EXCEPT ![t].locked = 0]
    /\ pc' = [pc EXCEPT ![t] = "mcs_xchg"]
    /\ UNCHANGED <<reg, iter, counter, arrivals, g_mcs_lock, exceptMcs>>

\* prev = (mcs_node_t *)atomic_xchg((volatile uint32_t *)&lock->tail, (uint32_t)node);
\* if (prev != NULL) ... otherwise, lock was free, we have it
mcs_lock_xchg(t) ==
    /\ pc[t] = "mcs_xchg"
    /\ LET x == atomic_xchg(g_mcs_lock.tail, PtrToWord(t))
       IN  /\ g_mcs_lock' = [g_mcs_lock EXCEPT !.tail = x.mem]
           /\ reg' = [reg EXCEPT ![t] = x.ret]
           /\ pc' = [pc EXCEPT ![t] = IF x.ret # NULL THEN "mcs_locked1" ELSE "cs"]
    /\ arrivals' = Append(arrivals, t)
    /\ UNCHANGED <<iter, counter, mcs_node, exceptMcs>>

\* the waiter's flag left clear
mcs_lock_locked1_clear(t) ==
    /\ pc[t] = "mcs_locked1"
    /\ mcs_node' = [mcs_node EXCEPT ![t].locked = 0]
    /\ pc' = [pc EXCEPT ![t] = "mcs_link"]
    /\ UNCHANGED <<reg, iter, counter, arrivals, g_mcs_lock, exceptMcs>>

\* node->locked = 1;
mcs_lock_locked1(t) ==
    /\ pc[t] = "mcs_locked1"
    /\ mcs_node' = [mcs_node EXCEPT ![t].locked = 1]
    /\ pc' = [pc EXCEPT ![t] = "mcs_link"]
    /\ UNCHANGED <<reg, iter, counter, arrivals, g_mcs_lock, exceptMcs>>

\* atomic_store_release((volatile uint32_t *)&prev->next, (uint32_t)node);
mcs_lock_link(t) ==
    /\ pc[t] = "mcs_link"
    /\ mcs_node' = [mcs_node EXCEPT ![reg[t]].next = PtrToWord(t)]
    /\ pc' = [pc EXCEPT ![t] = "mcs_spin"]
    /\ UNCHANGED <<reg, iter, counter, arrivals, g_mcs_lock, exceptMcs>>

\* one iteration of  while (atomic_load_acquire(&node->locked) != 0)
mcs_lock_spin(t) ==
    /\ pc[t] = "mcs_spin"
    /\ pc' = [pc EXCEPT ![t] =
                 IF atomic_load_acquire(mcs_node[t].locked) # 0 THEN "mcs_spin" ELSE "cs"]
    /\ reg' = [reg EXCEPT ![t] = IF pc'[t] = "cs" THEN 0 ELSE @]
    /\ UNCHANGED <<iter, counter, arrivals, lockVars>>

\* next = (mcs_node_t *)atomic_load((volatile uint32_t *)&node->next);
mcs_unlock_load(t) ==
    /\ pc[t] = "cs_end"
    /\ reg' = [reg EXCEPT ![t] = atomic_load(mcs_node[t].next)]
    /\ pc' = [pc EXCEPT ![t] =
                 IF atomic_load(mcs_node[t].next) = NULL THEN "mcs_cas" ELSE "mcs_pass"]
    /\ UNCHANGED <<iter, counter, arrivals, lockVars>>

\* tail cleared with a plain store instead of the compare-and-swap
mcs_unlock_cas_store(t) ==
    /\ pc[t] = "mcs_cas"
    /\ g_mcs_lock' = [g_mcs_lock EXCEPT !.tail = 0]
    /\ pc' = [pc EXCEPT ![t] = "idle"]
    /\ iter' = [iter EXCEPT ![t] = iter[t] + 1]
    /\ arrivals' = Without(arrivals, t)
    /\ UNCHANGED <<reg, counter, mcs_node, exceptMcs>>

\* the release that returns without waiting for the successor to link itself
mcs_unlock_cas_nowait(t) ==
    /\ pc[t] = "mcs_cas"
    /\ LET x == atomic_cmpxchg_bool(g_mcs_lock.tail, PtrToWord(t), 0)
       IN  g_mcs_lock' = [g_mcs_lock EXCEPT !.tail = x.mem]
    /\ pc' = [pc EXCEPT ![t] = "idle"]
    /\ iter' = [iter EXCEPT ![t] = iter[t] + 1]
    /\ arrivals' = Without(arrivals, t)
    /\ UNCHANGED <<reg, counter, mcs_node, exceptMcs>>

\* if (atomic_cmpxchg_bool(&lock->tail, (uint32_t)old_tail, 0)) return;
mcs_unlock_cas(t) ==
    /\ pc[t] = "mcs_cas"
    /\ LET x == atomic_cmpxchg_bool(g_mcs_lock.tail, PtrToWord(t), 0)
       IN  /\ g_mcs_lock' = [g_mcs_lock EXCEPT !.tail = x.mem]
           /\ pc' = [pc EXCEPT ![t] = IF x.ret = 1 THEN "idle" ELSE "mcs_wait"]
           /\ iter' = [iter EXCEPT ![t] = IF x.ret = 1 THEN iter[t] + 1 ELSE iter[t]]
           /\ arrivals' = IF x.ret = 1 THEN Without(arrivals, t) ELSE arrivals
    /\ UNCHANGED <<reg, counter, mcs_node, exceptMcs>>

\* one iteration of  while ((next = atomic_load(&node->next)) == NULL)
mcs_unlock_wait(t) ==
    /\ pc[t] = "mcs_wait"
    /\ reg' = [reg EXCEPT ![t] = atomic_load(mcs_node[t].next)]
    /\ pc' = [pc EXCEPT ![t] =
                 IF atomic_load(mcs_node[t].next) = NULL THEN "mcs_wait" ELSE "mcs_pass"]
    /\ UNCHANGED <<iter, counter, arrivals, lockVars>>

\* the lock handed to any waiting node instead of the successor
mcs_unlock_pass_any(t) ==
    /\ pc[t] = "mcs_pass"
    /\ \E n \in McsNodes \ {t} : mcs_node' = [mcs_node EXCEPT ![n].locked = 0]
    /\ pc' = [pc EXCEPT ![t] = "idle"]
    /\ iter' = [iter EXCEPT ![t] = iter[t] + 1]
    /\ reg' = [reg EXCEPT ![t] = 0]
    /\ arrivals' = Without(arrivals, t)
    /\ UNCHANGED <<counter, g_mcs_lock, exceptMcs>>

\* atomic_store_release(&next->locked, 0);
mcs_unlock_pass(t) ==
    /\ pc[t] = "mcs_pass"
    /\ mcs_node' = [mcs_node EXCEPT ![reg[t]].locked = 0]
    /\ pc' = [pc EXCEPT ![t] = "idle"]
    /\ iter' = [iter EXCEPT ![t] = iter[t] + 1]
    /\ reg' = [reg EXCEPT ![t] = 0]
    /\ arrivals' = Without(arrivals, t)
    /\ UNCHANGED <<counter, g_mcs_lock, exceptMcs>>

\* --------------------------------------- include/mcslock.h: CLH lock
\* The threads that use the CLH lock.
ClhThreads == 2

ClhThreadSet == 1 .. ClhThreads

\* Thread t's first node lives at address t, the dummy of clh_init after them.
ClhDummy == ClhThreads + 1

ClhNodes == 1 .. ClhDummy

\* dummy->prev = NULL; dummy->locked = 0; lock->tail = dummy
clh_init == g_clh_lock = [tail |-> PtrToWord(ClhDummy)]

clh_node_init ==
    /\ clh_node = [n \in ClhNodes |-> [prev |-> NULL, locked |-> 0]]
    /\ node = [t \in ClhThreadSet |-> t]

\* the node published with its flag clear
clh_lock_locked_clear(t) ==
    /\ pc[t] = "idle"
    /\ clh_node' = [clh_node EXCEPT ![node[t]].locked = 0]
    /\ pc' = [pc EXCEPT ![t] = "clh_xchg"]
    /\ UNCHANGED <<reg, iter, counter, arrivals, g_clh_lock, node, exceptClh>>

\* node->locked = 1;
clh_lock_locked(t) ==
    /\ pc[t] = "idle"
    /\ clh_node' = [clh_node EXCEPT ![node[t]].locked = 1]
    /\ pc' = [pc EXCEPT ![t] = "clh_xchg"]
    /\ UNCHANGED <<reg, iter, counter, arrivals, g_clh_lock, node, exceptClh>>

\* prev = (clh_node_t *)atomic_xchg((volatile uint32_t *)&lock->tail, (uint32_t)node);
clh_lock_xchg(t) ==
    /\ pc[t] = "clh_xchg"
    /\ LET x == atomic_xchg(g_clh_lock.tail, PtrToWord(node[t]))
       IN  /\ g_clh_lock' = [g_clh_lock EXCEPT !.tail = x.mem]
           /\ reg' = [reg EXCEPT ![t] = x.ret]
    /\ pc' = [pc EXCEPT ![t] = "clh_prev"]
    /\ UNCHANGED <<iter, counter, arrivals, clh_node, node, exceptClh>>

\* node->prev = prev;
clh_lock_prev(t) ==
    /\ pc[t] = "clh_prev"
    /\ clh_node' = [clh_node EXCEPT ![node[t]].prev = reg[t]]
    /\ pc' = [pc EXCEPT ![t] = "clh_spin"]
    /\ UNCHANGED <<reg, iter, counter, arrivals, g_clh_lock, node, exceptClh>>

\* one iteration of  while (atomic_load_acquire(&prev->locked) != 0)
clh_lock_spin(t) ==
    /\ pc[t] = "clh_spin"
    /\ pc' = [pc EXCEPT ![t] =
                 IF atomic_load_acquire(clh_node[reg[t]].locked) # 0
                 THEN "clh_spin" ELSE "cs"]
    /\ reg' = [reg EXCEPT ![t] = IF pc'[t] = "cs" THEN 0 ELSE @]
    /\ UNCHANGED <<iter, counter, arrivals, lockVars>>

\* clh_node_t *prev = node->prev; atomic_store_release(&node->locked, 0);
clh_unlock(t) ==
    /\ pc[t] = "cs"
    /\ reg' = [reg EXCEPT ![t] = clh_node[node[t]].prev]
    /\ clh_node' = [clh_node EXCEPT ![node[t]].locked = 0]
    /\ pc' = [pc EXCEPT ![t] = "clh_unlocked"]
    /\ UNCHANGED <<iter, counter, arrivals, g_clh_lock, node, exceptClh>>

\* The caller's next clh_lock takes the predecessor's node: the two-node rotation.
clh_rotate(t) ==
    /\ pc[t] = "clh_unlocked"
    /\ node' = [node EXCEPT ![t] = reg[t]]
    /\ pc' = [pc EXCEPT ![t] = "idle"]
    /\ reg' = [reg EXCEPT ![t] = 0]
    /\ UNCHANGED <<iter, counter, arrivals, g_clh_lock, clh_node, exceptClh>>

\* The caller's next clh_lock takes the same node: one persistent node per thread.
clh_persist(t) ==
    /\ pc[t] = "clh_unlocked"
    /\ pc' = [pc EXCEPT ![t] = "idle"]
    /\ reg' = [reg EXCEPT ![t] = 0]
    /\ UNCHANGED <<iter, counter, arrivals, lockVars>>

\* ------------------------------- include/rwlock.h: simple reader-writer lock
rw_init == rw_lock = [readers |-> 0, writer |-> 0]

\* tests/test_locks.c test_rwlock: rw_data.readers_active = 0;
rw_data_init == readers_active = 0

\* From the return of a read lock to the start of the read unlock.
ReadCS(t) == pc[t] \in {"read_cs", "ra_inc", "ra_work", "ra_dec", "ra_end"}

WriteCS(t) == pc[t] = "write_cs"

\* the writer flag not looked at before the count is taken
rw_read_lock_check_blind(t) ==
    /\ pc[t] \in {"idle", "rl_check"}
    /\ pc' = [pc EXCEPT ![t] = "rl_load"]
    /\ UNCHANGED <<reg, iter, counter, arrivals, lockVars>>

\* a reader let in only when there is no reader either
rw_read_lock_check_exclusive(t) ==
    /\ pc[t] \in {"idle", "rl_check"}
    /\ pc' = [pc EXCEPT ![t] =
                 IF atomic_load(rw_lock.writer) = 0 /\ atomic_load(rw_lock.readers) = 0
                 THEN "rl_load" ELSE "rl_check"]
    /\ UNCHANGED <<reg, iter, counter, arrivals, lockVars>>

\* rw_read_lock: one iteration's  if (atomic_load(&lock->writer) == 0)
rw_read_lock_check(t) ==
    /\ pc[t] \in {"idle", "rl_check"}
    /\ pc' = [pc EXCEPT ![t] =
                 IF atomic_load(rw_lock.writer) = 0 THEN "rl_load" ELSE "rl_check"]
    /\ UNCHANGED <<reg, iter, counter, arrivals, lockVars>>

\* uint32_t old_readers = atomic_load(&lock->readers);
rw_read_lock_load(t) ==
    /\ pc[t] = "rl_load"
    /\ reg' = [reg EXCEPT ![t] = atomic_load(rw_lock.readers)]
    /\ pc' = [pc EXCEPT ![t] = "rl_cas"]
    /\ UNCHANGED <<iter, counter, arrivals, lockVars>>

\* if (atomic_cmpxchg_bool(&lock->readers, old_readers, old_readers + 1))
rw_read_lock_cas(t) ==
    /\ pc[t] = "rl_cas"
    /\ LET x == atomic_cmpxchg_bool(rw_lock.readers, reg[t], (reg[t] + 1) % Word)
       IN  /\ rw_lock' = [rw_lock EXCEPT !.readers = x.mem]
           /\ pc' = [pc EXCEPT ![t] = IF x.ret = 1 THEN "rl_verify" ELSE "rl_check"]
    /\ reg' = [reg EXCEPT ![t] = 0]
    /\ UNCHANGED <<iter, counter, arrivals, readers_active, exceptRw>>

\* the re-check of the writer flag left out
rw_read_lock_verify_skipped(t) ==
    /\ pc[t] = "rl_verify"
    /\ pc' = [pc EXCEPT ![t] = "read_cs"]
    /\ UNCHANGED <<reg, iter, counter, arrivals, lockVars>>

\* if (atomic_load(&lock->writer) == 0) return;
rw_read_lock_verify(t) ==
    /\ pc[t] = "rl_verify"
    /\ pc' = [pc EXCEPT ![t] =
                 IF atomic_load(rw_lock.writer) = 0 THEN "read_cs" ELSE "rl_dec"]
    /\ UNCHANGED <<reg, iter, counter, arrivals, lockVars>>

\* Writer acquired, back off: atomic_dec(&lock->readers);
rw_read_lock_dec(t) ==
    /\ pc[t] = "rl_dec"
    /\ rw_lock' = [rw_lock EXCEPT !.readers = atomic_dec(@).mem]
    /\ pc' = [pc EXCEPT ![t] = "rl_check"]
    /\ UNCHANGED <<reg, iter, counter, arrivals, readers_active, exceptRw>>

\* rw_read_trylock: if (atomic_load(&lock->writer) != 0) return 0;
rw_read_trylock_check(t) ==
    /\ pc[t] = "idle"
    /\ pc' = [pc EXCEPT ![t] =
                 IF atomic_load(rw_lock.writer) # 0 THEN "trylock_failed" ELSE "rt_load"]
    /\ UNCHANGED <<reg, iter, counter, arrivals, lockVars>>

\* uint32_t old_readers = atomic_load(&lock->readers);
rw_read_trylock_load(t) ==
    /\ pc[t] = "rt_load"
    /\ reg' = [reg EXCEPT ![t] = atomic_load(rw_lock.readers)]
    /\ pc' = [pc EXCEPT ![t] = "rt_cas"]
    /\ UNCHANGED <<iter, counter, arrivals, lockVars>>

\* if (atomic_cmpxchg_bool(&lock->readers, old_readers, old_readers + 1)) ... return 0;
rw_read_trylock_cas(t) ==
    /\ pc[t] = "rt_cas"
    /\ LET x == atomic_cmpxchg_bool(rw_lock.readers, reg[t], (reg[t] + 1) % Word)
       IN  /\ rw_lock' = [rw_lock EXCEPT !.readers = x.mem]
           /\ pc' = [pc EXCEPT ![t] = IF x.ret = 1 THEN "rt_verify" ELSE "trylock_failed"]
    /\ reg' = [reg EXCEPT ![t] = 0]
    /\ UNCHANGED <<iter, counter, arrivals, readers_active, exceptRw>>
\* the sense of the verification inverted
rw_read_trylock_verify_inverted(t) ==
    /\ pc[t] = "rt_verify"
    /\ pc' = [pc EXCEPT ![t] =
                 IF atomic_load(rw_lock.writer) # 0 THEN "read_cs" ELSE "rt_dec"]
    /\ UNCHANGED <<reg, iter, counter, arrivals, lockVars>>


\* if (atomic_load(&lock->writer) == 0) return 1;
rw_read_trylock_verify(t) ==
    /\ pc[t] = "rt_verify"
    /\ pc' = [pc EXCEPT ![t] =
                 IF atomic_load(rw_lock.writer) = 0 THEN "read_cs" ELSE "rt_dec"]
    /\ UNCHANGED <<reg, iter, counter, arrivals, lockVars>>

\* atomic_dec(&lock->readers); return 0;
rw_read_trylock_dec(t) ==
    /\ pc[t] = "rt_dec"
    /\ rw_lock' = [rw_lock EXCEPT !.readers = atomic_dec(@).mem]
    /\ pc' = [pc EXCEPT ![t] = "trylock_failed"]
    /\ UNCHANGED <<reg, iter, counter, arrivals, readers_active, exceptRw>>

\* atomic_dec(&lock->readers);
rw_read_unlock(t) ==
    /\ pc[t] \in {"read_cs", "ra_end"}
    /\ rw_lock' = [rw_lock EXCEPT !.readers = atomic_dec(@).mem]
    /\ pc' = [pc EXCEPT ![t] = "idle"]
    /\ UNCHANGED <<reg, iter, counter, arrivals, readers_active, exceptRw>>

\* tests/test_locks.c rwlock_reader: rw_data.readers_active++, the load ...
rwlock_reader_inc_load(t) ==
    /\ pc[t] = "read_cs"
    /\ reg' = [reg EXCEPT ![t] = readers_active]
    /\ pc' = [pc EXCEPT ![t] = "ra_inc"]
    /\ UNCHANGED <<iter, counter, arrivals, lockVars>>

\* ... and the store
rwlock_reader_inc_store(t) ==
    /\ pc[t] = "ra_inc"
    /\ readers_active' = (reg[t] + 1) % Word
    /\ reg' = [reg EXCEPT ![t] = 0]
    /\ pc' = [pc EXCEPT ![t] = "ra_work"]
    /\ UNCHANGED <<iter, counter, arrivals, rw_lock, exceptRw>>

\* rw_data.readers_active--, the load ...
rwlock_reader_dec_load(t) ==
    /\ pc[t] = "ra_work"
    /\ reg' = [reg EXCEPT ![t] = readers_active]
    /\ pc' = [pc EXCEPT ![t] = "ra_dec"]
    /\ UNCHANGED <<iter, counter, arrivals, lockVars>>

\* ... and the store
rwlock_reader_dec_store(t) ==
    /\ pc[t] = "ra_dec"
    /\ readers_active' = (reg[t] + Word - 1) % Word
    /\ reg' = [reg EXCEPT ![t] = 0]
    /\ pc' = [pc EXCEPT ![t] = "ra_end"]
    /\ UNCHANGED <<iter, counter, arrivals, rw_lock, exceptRw>>

\* rw_write_lock: one iteration of  while (atomic_xchg(&lock->writer, 1) != 0)
rw_write_lock_xchg(t) ==
    /\ pc[t] \in {"idle", "wl_xchg"}
    /\ LET x == atomic_xchg(rw_lock.writer, 1)
       IN  /\ rw_lock' = [rw_lock EXCEPT !.writer = x.mem]
           /\ pc' = [pc EXCEPT ![t] = IF x.ret # 0 THEN "wl_xchg" ELSE "wl_drain"]
    /\ UNCHANGED <<reg, iter, counter, arrivals, readers_active, exceptRw>>

\* one iteration of  while (atomic_load(&lock->readers) != 0)
rw_write_lock_drain(t) ==
    /\ pc[t] = "wl_drain"
    /\ pc' = [pc EXCEPT ![t] =
                 IF atomic_load(rw_lock.readers) # 0 THEN "wl_drain" ELSE "write_cs"]
    /\ UNCHANGED <<reg, iter, counter, arrivals, lockVars>>

\* rw_write_trylock: if (atomic_xchg(&lock->writer, 1) != 0) return 0;
rw_write_trylock_xchg(t) ==
    /\ pc[t] = "idle"
    /\ LET x == atomic_xchg(rw_lock.writer, 1)
       IN  /\ rw_lock' = [rw_lock EXCEPT !.writer = x.mem]
           /\ pc' = [pc EXCEPT ![t] = IF x.ret # 0 THEN "idle" ELSE "wt_check"]
    /\ UNCHANGED <<reg, iter, counter, arrivals, readers_active, exceptRw>>

\* if (atomic_load(&lock->readers) != 0) ... return 1;
rw_write_trylock_check(t) ==
    /\ pc[t] = "wt_check"
    /\ pc' = [pc EXCEPT ![t] =
                 IF atomic_load(rw_lock.readers) # 0 THEN "wt_undo" ELSE "write_cs"]
    /\ UNCHANGED <<reg, iter, counter, arrivals, lockVars>>

\* atomic_store(&lock->writer, 0); return 0;
rw_write_trylock_undo(t) ==
    /\ pc[t] = "wt_undo"
    /\ rw_lock' = [rw_lock EXCEPT !.writer = 0]
    /\ pc' = [pc EXCEPT ![t] = "idle"]
    /\ UNCHANGED <<reg, iter, counter, arrivals, readers_active, exceptRw>>

\* atomic_store_release(&lock->writer, 0);
rw_write_unlock(t) ==
    /\ pc[t] = "write_cs"
    /\ rw_lock' = [rw_lock EXCEPT !.writer = 0]
    /\ pc' = [pc EXCEPT ![t] = "idle"]
    /\ UNCHANGED <<reg, iter, counter, arrivals, readers_active, exceptRw>>

\* --------------------------- include/rwlock.h: phase-fair reader-writer lock
rw_phase_init ==
    g_rw_phase_lock = [readers |-> 0, writers |-> 0, writer_active |-> 0, read_phase |-> 0]

\* rw_phase_read_lock: one iteration's  atomic_load(&lock->writer_active) == 0 &&
rw_phase_read_lock_active(t) ==
    /\ pc[t] \in {"idle", "pr_active"}
    /\ pc' = [pc EXCEPT ![t] =
                 IF atomic_load(g_rw_phase_lock.writer_active) = 0
                 THEN "pr_phase" ELSE "pr_active"]
    /\ UNCHANGED <<reg, iter, counter, arrivals, lockVars>>

\* atomic_load(&lock->read_phase) == 1
rw_phase_read_lock_phase(t) ==
    /\ pc[t] = "pr_phase"
    /\ pc' = [pc EXCEPT ![t] =
                 IF atomic_load(g_rw_phase_lock.read_phase) = 1
                 THEN "pr_load" ELSE "pr_active"]
    /\ UNCHANGED <<reg, iter, counter, arrivals, lockVars>>

\* uint32_t old_readers = atomic_load(&lock->readers);
rw_phase_read_lock_load(t) ==
    /\ pc[t] = "pr_load"
    /\ reg' = [reg EXCEPT ![t] = atomic_load(g_rw_phase_lock.readers)]
    /\ pc' = [pc EXCEPT ![t] = "pr_cas"]
    /\ UNCHANGED <<iter, counter, arrivals, lockVars>>

\* if (atomic_cmpxchg_bool(&lock->readers, old_readers, old_readers + 1))
rw_phase_read_lock_cas(t) ==
    /\ pc[t] = "pr_cas"
    /\ LET x == atomic_cmpxchg_bool(g_rw_phase_lock.readers, reg[t], (reg[t] + 1) % Word)
       IN  /\ g_rw_phase_lock' = [g_rw_phase_lock EXCEPT !.readers = x.mem]
           /\ pc' = [pc EXCEPT ![t] = IF x.ret = 1 THEN "pr_verify" ELSE "pr_active"]
    /\ reg' = [reg EXCEPT ![t] = 0]
    /\ UNCHANGED <<iter, counter, arrivals, exceptPhase>>

\* if (atomic_load(&lock->writer_active) == 0) return;
rw_phase_read_lock_verify(t) ==
    /\ pc[t] = "pr_verify"
    /\ pc' = [pc EXCEPT ![t] =
                 IF atomic_load(g_rw_phase_lock.writer_active) = 0
                 THEN "read_cs" ELSE "pr_dec"]
    /\ UNCHANGED <<reg, iter, counter, arrivals, lockVars>>

\* atomic_dec(&lock->readers);
rw_phase_read_lock_dec(t) ==
    /\ pc[t] = "pr_dec"
    /\ g_rw_phase_lock' = [g_rw_phase_lock EXCEPT !.readers = atomic_dec(@).mem]
    /\ pc' = [pc EXCEPT ![t] = "pr_active"]
    /\ UNCHANGED <<reg, iter, counter, arrivals, exceptPhase>>

\* atomic_dec(&lock->readers);
rw_phase_read_unlock(t) ==
    /\ pc[t] = "read_cs"
    /\ g_rw_phase_lock' = [g_rw_phase_lock EXCEPT !.readers = atomic_dec(@).mem]
    /\ pc' = [pc EXCEPT ![t] = "idle"]
    /\ UNCHANGED <<reg, iter, counter, arrivals, exceptPhase>>

\* rw_phase_write_lock: atomic_inc(&lock->writers);
rw_phase_write_lock_inc(t) ==
    /\ pc[t] = "idle"
    /\ g_rw_phase_lock' = [g_rw_phase_lock EXCEPT !.writers = atomic_inc(@).mem]
    /\ pc' = [pc EXCEPT ![t] = "pw_phase"]
    /\ UNCHANGED <<reg, iter, counter, arrivals, exceptPhase>>

\* atomic_store(&lock->read_phase, 0);
rw_phase_write_lock_phase(t) ==
    /\ pc[t] = "pw_phase"
    /\ g_rw_phase_lock' = [g_rw_phase_lock EXCEPT !.read_phase = 0]
    /\ pc' = [pc EXCEPT ![t] = "pw_drain"]
    /\ UNCHANGED <<reg, iter, counter, arrivals, exceptPhase>>

\* one iteration of  while (atomic_load(&lock->readers) != 0)
rw_phase_write_lock_drain(t) ==
    /\ pc[t] = "pw_drain"
    /\ pc' = [pc EXCEPT ![t] =
                 IF atomic_load(g_rw_phase_lock.readers) # 0 THEN "pw_drain" ELSE "pw_xchg"]
    /\ UNCHANGED <<reg, iter, counter, arrivals, lockVars>>
\* writer_active tested and then set, in place of the exchange
rw_phase_write_lock_xchg_store(t) ==
    /\ pc[t] = "pw_xchg"
    /\ g_rw_phase_lock' = [g_rw_phase_lock EXCEPT !.writer_active = 1]
    /\ pc' = [pc EXCEPT ![t] = "pw_dec"]
    /\ UNCHANGED <<reg, iter, counter, arrivals, exceptPhase>>


\* one iteration of  while (atomic_xchg(&lock->writer_active, 1) != 0)
rw_phase_write_lock_xchg(t) ==
    /\ pc[t] = "pw_xchg"
    /\ LET x == atomic_xchg(g_rw_phase_lock.writer_active, 1)
       IN  /\ g_rw_phase_lock' = [g_rw_phase_lock EXCEPT !.writer_active = x.mem]
           /\ pc' = [pc EXCEPT ![t] = IF x.ret # 0 THEN "pw_xchg" ELSE "pw_dec"]
    /\ UNCHANGED <<reg, iter, counter, arrivals, exceptPhase>>

\* atomic_dec(&lock->writers);
rw_phase_write_lock_dec(t) ==
    /\ pc[t] = "pw_dec"
    /\ g_rw_phase_lock' = [g_rw_phase_lock EXCEPT !.writers = atomic_dec(@).mem]
    /\ pc' = [pc EXCEPT ![t] = "write_cs"]
    /\ UNCHANGED <<reg, iter, counter, arrivals, exceptPhase>>

\* rw_phase_write_unlock: atomic_store_release(&lock->writer_active, 0);
rw_phase_write_unlock_active(t) ==
    /\ pc[t] = "write_cs"
    /\ g_rw_phase_lock' = [g_rw_phase_lock EXCEPT !.writer_active = 0]
    /\ pc' = [pc EXCEPT ![t] = "pwu_phase"]
    /\ UNCHANGED <<reg, iter, counter, arrivals, exceptPhase>>

\* atomic_store(&lock->read_phase, 1);
rw_phase_write_unlock_phase(t) ==
    /\ pc[t] = "pwu_phase"
    /\ g_rw_phase_lock' = [g_rw_phase_lock EXCEPT !.read_phase = 1]
    /\ pc' = [pc EXCEPT ![t] = "idle"]
    /\ UNCHANGED <<reg, iter, counter, arrivals, exceptPhase>>

\* ------------------------------------------------------ specifications
\* Every lock after its init operation, every thread before its first call.
Init ==
    /\ InitThreads
    /\ spin_init
    /\ tatas_init
    /\ ticket_init
    /\ anderson_init(MaxSlots)
    /\ mcs_init /\ mcs_node_init
    /\ clh_init /\ clh_node_init
    /\ rw_init /\ rw_data_init
    /\ rw_phase_init
    /\ atomic_test_init
\* tests/bench_locks.c tatas_bench_thread, with tatas_trylock as a second way in
NextTATAS ==
    \E t \in Threads :
        \/ tatas_lock_load(t)
        \/ tatas_lock_xchg(t)
        \/ tatas_trylock(t)
        \/ spin_trylock_failed(t)
        \/ counter_load(t)
        \/ counter_store(t)
        \/ tatas_unlock(t)

SpecTATAS == Init /\ [][NextTATAS]_vars

\* tests/test_locks.c ticketlock_thread, with ticket_trylock as a second way in
NextTicketTry ==
    \E t \in Threads :
        \/ ticket_lock_take(t)
        \/ ticket_lock_spin(t)
        \/ ticket_trylock_next(t)
        \/ ticket_trylock_serving(t)
        \/ ticket_trylock_cas(t)
        \/ ticket_trylock_verify(t)
        \/ spin_trylock_failed(t)
        \/ counter_load(t)
        \/ counter_store(t)
        \/ ticket_unlock_load(t)
        \/ ticket_unlock_store(t)

SpecTicketTry == Init /\ [][NextTicketTry]_vars

\* Threads that only read: rw_read_lock, rw_read_trylock and rw_read_unlock;
\* no thread calls rw_write_lock or rw_write_trylock, so writer stays 0.
NextReadTry ==
    \E t \in Threads :
        \/ rw_read_lock_check(t)
        \/ rw_read_lock_load(t)
        \/ rw_read_lock_cas(t)
        \/ rw_read_lock_verify(t)
        \/ rw_read_trylock_check(t)
        \/ rw_read_trylock_load(t)
        \/ rw_read_trylock_cas(t)
        \/ rw_read_trylock_verify(t)
        \/ spin_trylock_failed(t)
        \/ rw_read_unlock(t)

SpecReadTry == Init /\ [][NextReadTry]_vars


\* tests/test_locks.c spinlock_thread, with spin_trylock as a second way in
NextTAS ==
    \E t \in Threads :
        \/ spin_lock(t)
        \/ spin_trylock(t)
        \/ spin_trylock_failed(t)
        \/ counter_load(t)
        \/ counter_store(t)
        \/ spin_unlock(t)

SpecTAS == Init /\ [][NextTAS]_vars

\* tests/test_locks.c ticketlock_thread
NextTicket ==
    \E t \in Threads :
        \/ ticket_lock_take(t)
        \/ ticket_lock_spin(t)
        \/ counter_load(t)
        \/ counter_store(t)
        \/ ticket_unlock_load(t)
        \/ ticket_unlock_store(t)

SpecTicket == Init /\ [][NextTicket]_vars

\* tests/test_locks.c mcslock_thread
NextMCS ==
    \E t \in Threads :
        \/ mcs_lock_next(t)
        \/ mcs_lock_locked0(t)
        \/ mcs_lock_xchg(t)
        \/ mcs_lock_locked1(t)
        \/ mcs_lock_link(t)
        \/ mcs_lock_spin(t)
        \/ counter_load(t)
        \/ counter_store(t)
        \/ mcs_unlock_load(t)
        \/ mcs_unlock_cas(t)
        \/ mcs_unlock_wait(t)
        \/ mcs_unlock_pass(t)

SpecMCS == Init /\ [][NextMCS]_vars

\* A thread's steps inside mcs_lock, inside the critical section and inside
\* mcs_unlock: everything but the decision to call mcs_lock.
McsRun(t) ==
    \/ mcs_lock_locked0(t)
    \/ mcs_lock_xchg(t)
    \/ mcs_lock_locked1(t)
    \/ mcs_lock_link(t)
    \/ mcs_lock_spin(t)
    \/ counter_load(t)
    \/ counter_store(t)
    \/ mcs_unlock_load(t)
    \/ mcs_unlock_cas(t)
    \/ mcs_unlock_wait(t)
    \/ mcs_unlock_pass(t)

\* The threads of tests/test_locks.c mcslock_thread under a scheduler that
\* keeps running every thread that is inside a call or inside the critical
\* section: a thread in a spin loop keeps iterating, a holder goes on to
\* mcs_unlock.
McsFairThreads == 2
McsFairSet == 1 .. McsFairThreads

NextMCSFair == \E t \in McsFairSet : mcs_lock_next(t) \/ McsRun(t)

SpecMCSFair ==
    /\ Init
    /\ [][NextMCSFair]_vars
    /\ \A t \in McsFairSet : WF_vars(McsRun(t))

\* Threads that read-lock, read-trylock, write-lock and write-trylock at will.
NextRW ==
    \E t \in Threads :
        \/ rw_read_lock_check(t)
        \/ rw_read_lock_load(t)
        \/ rw_read_lock_cas(t)
        \/ rw_read_lock_verify(t)
        \/ rw_read_lock_dec(t)
        \/ rw_read_trylock_check(t)
        \/ rw_read_trylock_load(t)
        \/ rw_read_trylock_cas(t)
        \/ rw_read_trylock_verify(t)
        \/ rw_read_trylock_dec(t)
        \/ spin_trylock_failed(t)
        \/ rw_read_unlock(t)
        \/ rw_write_lock_xchg(t)
        \/ rw_write_lock_drain(t)
        \/ rw_write_trylock_xchg(t)
        \/ rw_write_trylock_check(t)
        \/ rw_write_trylock_undo(t)
        \/ rw_write_unlock(t)

SpecRW == Init /\ [][NextRW]_vars

\* Threads that read-lock and write-lock the phase-fair lock at will.
NextPhase ==
    \E t \in Threads :
        \/ rw_phase_read_lock_active(t)
        \/ rw_phase_read_lock_phase(t)
        \/ rw_phase_read_lock_load(t)
        \/ rw_phase_read_lock_cas(t)
        \/ rw_phase_read_lock_verify(t)
        \/ rw_phase_read_lock_dec(t)
        \/ rw_phase_read_unlock(t)
        \/ rw_phase_write_lock_inc(t)
        \/ rw_phase_write_lock_phase(t)
        \/ rw_phase_write_lock_drain(t)
        \/ rw_phase_write_lock_xchg(t)
        \/ rw_phase_write_lock_dec(t)
        \/ rw_phase_write_unlock_active(t)
        \/ rw_phase_write_unlock_phase(t)

SpecPhase == Init /\ [][NextPhase]_vars

\* anderson_init(lock, n) for every n up to MaxSlots, then at most n threads
\* holding or waiting at a time.
InitAnderson ==
    /\ InitThreads
    /\ spin_init
    /\ tatas_init
    /\ ticket_init
    /\ \E n \in 1 .. MaxSlots : anderson_init(n)
    /\ mcs_init /\ mcs_node_init
    /\ clh_init /\ clh_node_init
    /\ rw_init /\ rw_data_init
    /\ rw_phase_init
    /\ atomic_test_init
\* static anderson_lock_t lock = ANDERSON_LOCK_INITIALIZER(n);
InitAndersonStatic ==
    /\ InitThreads
    /\ spin_init
    /\ tatas_init
    /\ ticket_init
    /\ \E n \in 1 .. MaxSlots : ANDERSON_LOCK_INITIALIZER(n)
    /\ mcs_init /\ mcs_node_init
    /\ clh_init /\ clh_node_init
    /\ rw_init /\ rw_data_init
    /\ rw_phase_init
    /\ atomic_test_init


NextAnderson ==
    \E t \in Threads :
        \/ anderson_lock_take(t)
        \/ anderson_lock_spin(t)
        \/ anderson_lock_clear(t)
        \/ anderson_unlock_load(t)
        \/ anderson_unlock_serving(t)
        \/ anderson_unlock_flag(t)

SpecAnderson == InitAnderson /\ [][NextAnderson]_vars

SpecAndersonStatic == InitAndersonStatic /\ [][NextAnderson]_vars

\* clh_lock / clh_unlock, without the caller's choice of its next nodeSpecAndersonStatic == InitAndersonStatic /\ [][NextAnderson]_vars


ClhCall(t) ==
    \/ clh_lock_locked(t)
    \/ clh_lock_xchg(t)
    \/ clh_lock_prev(t)
    \/ clh_lock_spin(t)
    \/ clh_unlock(t)

\* Callers that rotate their two nodes.  Every thread keeps running: a thread
\* that can take a step that changes the state eventually takes one.
NextCLH == \E t \in ClhThreadSet : ClhCall(t) \/ clh_rotate(t)

SpecCLH ==
    /\ Init
    /\ [][NextCLH]_vars
    /\ \A t \in ClhThreadSet : WF_vars(ClhCall(t) \/ clh_rotate(t))

\* Callers that keep one persistent node each.
NextCLHPersistent == \E t \in ClhThreadSet : ClhCall(t) \/ clh_persist(t)

SpecCLHPersistent ==
    /\ Init
    /\ [][NextCLHPersistent]_vars
    /\ \A t \in ClhThreadSet : WF_vars(ClhCall(t) \/ clh_persist(t))

\* The two threads of the reader-only runs.
ReaderSet == 1 .. 2

\* rw_read_lock.  Its back-off (rw_read_lock_dec) needs writer # 0, which no
\* reader sets.
ReadLockCall(t) ==
    \/ rw_read_lock_check(t)
    \/ rw_read_lock_load(t)
    \/ rw_read_lock_cas(t)
    \/ rw_read_lock_verify(t)

\* tests/test_locks.c rwlock_reader, between rw_read_lock and rw_read_unlock
ReaderInside(t) ==
    \/ rwlock_reader_inc_load(t)
    \/ rwlock_reader_inc_store(t)
    \/ rwlock_reader_dec_load(t)
    \/ rwlock_reader_dec_store(t)
    \/ (pc[t] = "ra_end" /\ rw_read_unlock(t))

NextReaders == \E t \in ReaderSet : ReadLockCall(t) \/ ReaderInside(t)

\* Two threads that only read-lock and read-unlock.  A reader that is in
\* rw_read_lock keeps running; a reader inside may stay inside.
SpecReaders ==
    /\ Init
    /\ [][NextReaders]_vars
    /\ \A t \in ReaderSet : WF_vars(ReadLockCall(t))

\* rw_phase_read_lock
PhaseReadLockCall(t) ==
    \/ rw_phase_read_lock_active(t)
    \/ rw_phase_read_lock_phase(t)
    \/ rw_phase_read_lock_load(t)
    \/ rw_phase_read_lock_cas(t)
    \/ rw_phase_read_lock_verify(t)
    \/ rw_phase_read_lock_dec(t)

\* The phase-fair lock with two threads that keep running once they are in
\* rw_phase_read_lock or about to call it.
SpecPhaseReaders ==
    /\ Init
    /\ [][NextPhase]_vars
    /\ \A t \in ReaderSet : WF_vars(PhaseReadLockCall(t))

\* tests/test_locks.c test_atomic_operations, with every argument
NextAtomic ==
    \/ call_atomic_xchg
    \/ call_atomic_cmpxchg
    \/ call_atomic_cmpxchg_bool
    \/ call_atomic_fetch_add
    \/ call_atomic_fetch_sub
    \/ call_atomic_and
    \/ call_atomic_or
    \/ call_atomic_inc
    \/ call_atomic_dec

SpecAtomic == Init /\ [][NextAtomic]_vars

\* ------------------------------------------------------------- claims
RECURSIVE SumOver(_, _)
SumOver(f, S) ==
    IF S = {} THEN 0
    ELSE LET x == CHOOSE y \in S : TRUE IN f[x] + SumOver(f, S \ {x})

\* C1: TAS spinlock.  Under spin_lock, spin_trylock and spin_unlock at most one
\* thread is in the critical section, and some thread holds the lock exactly
\* when locked = 1.
C1_MutexTAS ==
    /\ Cardinality(Holders) <= 1
    /\ (Holders # {}) <=> (g_spin_lock.locked = 1)

\* A thread holds the lock on a later iteration while another spins for it.
C1_Witness ==
    \E a, b \in Threads :
        /\ InCS(a) /\ iter[a] > 0
        /\ pc[b] = "spin_lock"
        /\ g_spin_lock.locked = 1

\* C2: ticket lock.  At most one thread is in the critical section, so the
\* counter incremented inside it by T threads x N iterations ends at T * N.
C2_MutexTicket ==
    /\ Cardinality(Holders) <= 1
    /\ (\A t \in Threads : iter[t] = Iterations)
           => counter = (NumThreads * Iterations) % Word

\* Every thread has finished its iterations.
C2_Witness ==
    /\ \A t \in Threads : iter[t] = Iterations /\ pc[t] = "idle"
    /\ g_ticket_lock.serving = (NumThreads * Iterations) % Word

\* The increments thread t has stored so far.
Stored(t) == iter[t] + (IF pc[t] \in {"cs_end", "mcs_cas", "mcs_wait", "mcs_pass"} THEN 1 ELSE 0)

C4_ExclusionRW ==
    /\ \A a, b \in Threads : ~(ReadCS(a) /\ WriteCS(b))
    /\ Cardinality({t \in Threads : WriteCS(t)}) <= 1

\* Two readers are inside while a writer that owns the writer flag waits for
\* them to drain.
C4_Witness ==
    \E a, b, w \in Threads :
        /\ a # b /\ ReadCS(a) /\ ReadCS(b)
        /\ pc[w] \in {"wl_drain", "wt_check"}

\* C5: phase-fair RW lock.  No thread has returned from rw_phase_read_lock and
\* not yet unlocked while another has returned from rw_phase_write_lock and not
\* yet unlocked.
C5_ExclusionPhase == \A a, b \in Threads : ~(ReadCS(a) /\ WriteCS(b))

\* C6: phase-fair RW lock.  No reachable state has writer_active = 1 and
\* readers > 0 at the same time.
C6_FieldsPhase == ~(g_rw_phase_lock.writer_active = 1 /\ g_rw_phase_lock.readers > 0)

\* C7: Anderson lock.  After anderson_init(lock, N), with at most N threads
\* holding or waiting, at most one thread is in the critical section.
C7_MutexAnderson == Cardinality(Holders) <= 1

ClhAcquiring(t) == pc[t] \in {"clh_xchg", "clh_prev", "clh_spin"}

C9_PersistentCLH == \A t \in ClhThreadSet : ClhAcquiring(t) ~> InCS(t)

\* C10: ticket lock FIFO.  A thread enters the critical section only when every
\* thread whose fetch_add on next_ticket completed before its own has entered:
\* it is the first of the waiting threads in arrival order.
C10_FifoTicket ==
    [][\A t \in Threads :
          (pc[t] = "ticket_spin" /\ pc'[t] = "cs") => Head(arrivals) = t]_vars

\* A thread is in the critical section and two threads queue behind it.
C10_Witness ==
    /\ Len(arrivals) >= 2
    /\ \E a \in Threads : InCS(a) /\ iter[a] > 0

\* A thread whose exchange on tail has completed and that has not yet entered.
McsWaiting(t) == pc[t] \in {"mcs_locked1", "mcs_link", "mcs_spin"}

FlagsSet ==
    {i \in 0 .. g_anderson_lock.num_slots - 1 : g_anderson_lock.flags[i] = 1}

\* C12: Anderson lock.  In every reachable state after anderson_init, with at
\* most num_slots participants, exactly one entry of flags equals 1, and it is
\* the entry at index serving_slot.
C12_OneFlagAnderson == FlagsSet = {g_anderson_lock.serving_slot}

\* The threads that have taken a ticket and not yet released: waiters and holder.
TicketQueued ==
    {t \in Threads : pc[t] \in {"ticket_spin", "cs", "cs_inc", "cs_end", "ticket_unlock"}}

\* C13: ticket lock.  In every reachable state of ticket_lock / ticket_unlock
\* interleavings, next_ticket - serving modulo the word size is the number of
\* threads that have taken a ticket and not yet released, and the holder's
\* ticket equals serving.
C13_QueueTicket ==
    /\ (g_ticket_lock.next_ticket + Word - g_ticket_lock.serving) % Word
           = Cardinality(TicketQueued)
    /\ \A t \in Threads :
           (InCS(t) \/ pc[t] = "ticket_unlock") => my_ticket[t] = g_ticket_lock.serving

\* next_ticket has wrapped past serving: a holder with every other thread
\* waiting behind it.
C13_Witness ==
    /\ g_ticket_lock.next_ticket < g_ticket_lock.serving
    /\ Cardinality(TicketQueued) = NumThreads
    /\ \E t \in Threads : InCS(t)

\* The threads that hold or wait for the MCS lock: from the exchange on tail to
\* the end of mcs_unlock.
McsQueued ==
    {t \in Threads :
        McsWaiting(t) \/ InCS(t) \/ pc[t] \in {"mcs_cas", "mcs_wait", "mcs_pass"}}

C15_Trylock ==
    /\ g_spin_lock.locked = 0
    /\ [][\A t \in Threads :
             /\ (pc[t] = "idle" /\ pc'[t] \in {"cs", "trylock_failed"})
                   => /\ (pc'[t] = "cs") <=> (g_spin_lock.locked = 0)
                      /\ g_spin_lock'.locked = 1
                      /\ \A u \in Threads \ {t} : pc'[u] = pc[u]
                      /\ Holders' = IF pc'[t] = "cs" THEN {t} ELSE Holders
             /\ (pc[t] = "cs_end" /\ pc'[t] = "idle")
                   => g_spin_lock'.locked = 0]_vars

\* A call has returned 0 while another thread holds the lock on a later
\* iteration, after an unlock.
C15_Witness ==
    \E a, b \in Threads :
        /\ pc[a] = "trylock_failed"
        /\ InCS(b) /\ iter[b] > 0
        /\ g_spin_lock.locked = 1

\* C16: simple RW lock.  With two threads that only call rw_read_lock and
\* rw_read_unlock, no reader is ever turned back, and a reader that stays
\* inside does not keep the other out: both are inside at once, which the
\* witness counter readers_active shows by reaching 2.
C16_ReadersShare ==
    /\ [](rw_lock.writer = 0 /\ \A t \in ReaderSet : pc[t] # "rl_dec")
    /\ \A a, b \in ReaderSet :
           (a # b /\ <>[]ReadCS(a)) => <>(ReadCS(a) /\ ReadCS(b))

\* Both readers are between their increment and their decrement of the witness
\* counter, which is 2.
C16_Witness ==
    /\ \A t \in ReaderSet : pc[t] = "ra_work"
    /\ readers_active = 2
    /\ rw_lock.readers = 2

\* Only the two readers run, and they only read-lock and read-unlock.
OnlyPhaseReaders ==
    \A t \in Threads :
        /\ pc[t] \in {"idle", "pr_active", "pr_phase", "pr_load", "pr_cas",
                      "pr_verify", "pr_dec", "read_cs"}
        /\ t \notin ReaderSet => pc[t] = "idle"

\* C17: phase-fair RW lock.  On a lock fresh from rw_phase_init, with two
\* threads that only read-lock and read-unlock and no writer ever arriving,
\* the readers enter (and can be inside together): some reader gets inside.
C17_PhaseReadersEnter ==
    []OnlyPhaseReaders => <>(\E t \in ReaderSet : ReadCS(t))

\* A writer whose exchange in rw_write_lock has set writer = 1 and that has
\* not yet executed rw_write_unlock.
WriteLockOwner(w) == pc[w] \in {"wl_drain", "write_cs"}

\* C18: simple RW lock, writer preference.  From a writer's exchange that set
\* writer = 1 until that writer's rw_write_unlock, writer stays 1 and no
\* rw_read_lock or rw_read_trylock call gets past its first look at writer, so
\* no call that starts in between returns success: a call succeeds only from
\* its re-check, which follows that look.
C18_WriterPreference ==
    /\ []((\E w \in Threads : WriteLockOwner(w)) => rw_lock.writer = 1)
    /\ [][\A t \in Threads :
             /\ ((\E w \in Threads : WriteLockOwner(w)) /\ pc[t] \in {"idle", "rl_check"})
                   => pc'[t] \notin {"rl_load", "rt_load"}
             /\ (pc[t] # "read_cs" /\ pc'[t] = "read_cs")
                   => pc[t] \in {"rl_verify", "rt_verify"}]_vars

\* A reader is kept at its look at writer while a writer, past the drain, is
\* inside.
C18_Witness ==
    \E w, r \in Threads :
        /\ pc[w] = "write_cs"
        /\ pc[r] = "rl_check"
        /\ rw_lock.readers = 0

\* C19: round trip.  After any sequence of completed acquire / release pairs
\* that leaves no holder and no waiter, every field of the TAS, ticket,
\* Anderson and MCS lock has its value right after the lock's init operation.
C19_RoundTrip ==
    (\A t \in Threads : pc[t] = "idle")
        => /\ spin_init
           /\ ticket_init
           /\ anderson_init(g_anderson_lock.num_slots)
           /\ mcs_init

\* Bit i of n.
Bit(n, i) == (n \div (2 ^ i)) % 2

\* C20: atomic layer.  For every cell value v and arguments: atomic_xchg
\* returns v and stores the new value; atomic_cmpxchg(e, d) returns v and
\* stores d iff v = e; atomic_cmpxchg_bool returns 1 iff v = e;
\* atomic_fetch_add, atomic_fetch_sub, atomic_and, atomic_or return v and leave
\* v + x, v - x, v & x, v | x modulo the word; atomic_inc and atomic_dec return
\* the new value.
C20_AtomicLayer ==
    LET v == call.v
        x == call.x
        y == call.y
    IN  /\ call.op = "xchg" => old = v /\ val = x
        /\ call.op = "cmpxchg" => old = v /\ val = (IF v = x THEN y ELSE v)
        /\ call.op = "cmpxchg_bool" =>
               old = (IF v = x THEN 1 ELSE 0) /\ val = (IF v = x THEN y ELSE v)
        /\ call.op = "fetch_add" => old = v /\ val = (v + x) % Word
        /\ call.op = "fetch_sub" => old = v /\ (val + x) % Word = v
        /\ call.op = "and" =>
               old = v /\ \A i \in 0 .. WordBits - 1 :
                              Bit(val, i) = 1 <=> (Bit(v, i) = 1 /\ Bit(x, i) = 1)
        /\ call.op = "or" =>
               old = v /\ \A i \in 0 .. WordBits - 1 :
                              Bit(val, i) = 1 <=> (Bit(v, i) = 1 \/ Bit(x, i) = 1)
        /\ call.op = "inc" => old = val /\ val = (v + 1) % Word
        /\ call.op = "dec" => old = val /\ (val + 1) % Word = v

\* C21: ticket lock wrap-around.  With next_ticket and serving wrapping modulo
\* the word and fewer threads than the word has values, at most one thread is
\* in the critical section and the waiters hold, in the order they arrived, the
\* tickets that follow the holder's modulo the word, so they enter in that
\* order, across the wrap as before it.
C21_WrapTicket ==
    LET h == Cardinality({t \in Threads : InCS(t) \/ pc[t] = "ticket_unlock"})
    IN  /\ Cardinality(Holders) <= 1
        /\ \A i \in 1 .. Len(arrivals) :
               my_ticket[arrivals[i]] = (g_ticket_lock.serving + h + i - 1) % Word

\* The holder took its ticket before the wrap, the waiter behind it after.
C21_Witness ==
    \E a, b \in Threads :
        /\ InCS(a) /\ pc[b] = "ticket_spin"
        /\ my_ticket[b] < my_ticket[a]
        /\ g_ticket_lock.next_ticket < g_ticket_lock.serving

TasStep(l, H, l2, H2) ==
    \/ \E t \in Threads \ H : l = 0 /\ l2 = 1 /\ H2 = H \cup {t}
    \/ \E t \in H : l2 = 0 /\ H2 = H \ {t}

\* C23: TATAS refines TAS.  Observed as the values of the locked word and
\* of which thread holds the lock, every step of tatas_lock / tatas_trylock /
\* tatas_unlock is a step of spin_lock / spin_trylock / spin_unlock or
\* changes nothing; at most one thread holds the TATAS lock, and it is held
\* iff locked = 1.
C23_TatasRefinesTas ==
    /\ [](/\ Cardinality(Holders) <= 1
          /\ (Holders # {}) <=> (g_tatas_lock.locked = 1)
          /\ g_tatas_lock.locked \in {0, 1})
    /\ [][TasStep(g_tatas_lock.locked, Holders, g_tatas_lock'.locked, Holders')
         ]_<<g_tatas_lock.locked, Holders>>

\* A thread whose load read 0 is about to exchange while another thread,
\* which took the lock in between, holds it: the exchange will read 1.
C23_Witness ==
    \E s, t \in Threads :
        /\ pc[t] = "tatas_xchg"
        /\ InCS(s)
        /\ g_tatas_lock.locked = 1

\* C25: ticket_trylock never strands a ticket.  In every interleaving of
\* ticket_lock, ticket_trylock and ticket_unlock, with the counters wrapping,
\* a ticket_trylock call whose compare-and-swap on next_ticket succeeded is
\* returned 1: a call that returns 0 leaves next_ticket as it found it.
C25_TrylockNoStrand ==
    [][\A t \in Threads :
          (pc[t] = "ticket_try_verify" /\ pc'[t] # "ticket_try_verify")
              => pc'[t] = "cs"]_vars

\* A ticket_trylock call has drawn a ticket with its compare-and-swap.
C25_Witness ==
    \E t \in Threads : pc[t] = "ticket_try_verify"

\* The lock is left unacquirable: a caller that was returned 0 keeps the
\* ticket the lock is serving.
C25_Stranded ==
    \E t \in Threads :
        /\ pc[t] \in {"trylock_failed", "idle"}
        /\ Len(SelectSeq(arrivals, LAMBDA x : x = t)) > 0
        /\ my_ticket[t] = g_ticket_lock.serving

AndersonUntouched ==
    /\ \A t \in Threads : pc[t] = "idle"
    /\ g_anderson_lock.next_slot = 0
    /\ g_anderson_lock.serving_slot = 0

\* C27: an Anderson lock initialized with ANDERSON_LOCK_INITIALIZER(n)
\* starts in the state anderson_init(lock, n) leaves (only flags[0] = 1), and
\* with at most n threads holding or waiting at most one thread is in the
\* critical section.
C27_StaticInitializer ==
    /\ (AndersonUntouched /\ \A i \in 1 .. g_anderson_lock.num_slots - 1 :
                                 g_anderson_lock.flags[i] = 1)
           => g_anderson_lock.num_slots = 1
    /\ Cardinality(Holders) <= 1

\* Two threads are in the critical section of a statically initialized lock
\* whose next_slot has not wrapped.
C27_TwoInside ==
    /\ Cardinality(Holders) = 2
    /\ g_anderson_lock.next_slot = 2

\* The slot anderson_lock gives the arrival that draws the value k of next_slot.
AndersonSlot(k) == k % g_anderson_lock.num_slots

\* C28: Anderson slots are assigned round-robin.  Each anderson_lock
\* arrival gets the slot after the previous arrival's, modulo num_slots (the
\* arrival after it gets the slot after its own), also when next_slot wraps
\* from 2^w - 1 to 0; and that slot is the one the matching anderson_unlock
\* signals: the slot num_slots-after serving_slot by the number of threads
\* that hold or wait and have not yet advanced serving_slot.
C28_RoundRobin ==
    [][\A t \in Threads :
          (pc[t] = "idle" /\ pc'[t] = "anderson_spin")
              => /\ AndersonSlot(g_anderson_lock'.next_slot)
                        = (reg'[t] + 1) % g_anderson_lock.num_slots
                 /\ reg'[t] =
                        (g_anderson_lock.serving_slot
                           + Cardinality({u \in Threads :
                                 pc[u] \notin {"idle", "anderson_flag"}}))
                        % g_anderson_lock.num_slots]_vars

\* C29: phase-fair RW lock.  In every interleaving of readers and writers at
\* most one thread is between the exchange that ends its wait in
\* rw_phase_write_lock and its rw_phase_write_unlock, so at most one is
\* between its return from rw_phase_write_lock and its rw_phase_write_unlock;
\* writer_active is 1 while a thread is.
C29_OneWriter ==
    /\ Cardinality({t \in Threads : pc[t] \in {"pw_dec", "write_cs"}}) <= 1
    /\ (\E t \in Threads : pc[t] \in {"pw_dec", "write_cs"})
           => g_rw_phase_lock.writer_active = 1

\* A writer is inside while a second writer, past the wait for the readers,
\* is at the exchange on writer_active, and a reader waits.
C29_Witness ==
    \E a, b, c \in Threads :
        /\ pc[a] = "write_cs"
        /\ pc[b] = "pw_xchg"
        /\ pc[c] \in {"pr_active", "pr_phase"}

McsAcquiring(t) ==
    pc[t] \in {"mcs_locked0", "mcs_xchg", "mcs_locked1", "mcs_link", "mcs_spin"}

McsReleasing(t) == pc[t] \in {"mcs_cas", "mcs_wait", "mcs_pass"}

=============================================================================
